---- MODULE Spec2Model ----
(***************************************************************************)
(* A model of the service Container of niondir/go-service (src/service.go, *)
(* lines 1-331): registration, the sequential Init loop and the Run launch *)
(* loop of StartAll, the goroutine started by runOne, StopAll, and the     *)
(* waiter/joiner goroutines of WaitAllStoppedTimeout.                      *)
(*                                                                         *)
(* Every Go statement that reads or writes a field shared between          *)
(* goroutines without synchronisation (runContext.running, runContext.err) *)
(* is one action of its own, so a concurrent reader can observe the state  *)
(* between any two of them.                                                *)
(***************************************************************************)
EXTENDS Integers, Sequences, FiniteSets, TLC

\* The services a caller may register (their resolved names).
Names == {"s1", "s2", "s3"}

\* The services that implement Initer.
Initers == {"s1", "s3"}

\* Services that return from Run once they observe the cancelled context
\* (the Runner contract); the others may ignore it.  Used by fairness only.
Cooperating == {"s1", "s2"}

\* Largest number of Register calls that succeed.
MaxServices == 2

\* The goroutines that register a service with the default container, and
\* the largest number of such calls each of them makes.
Callers == {"g1", "g2", "g3"}
MaxCalls == 2

\* The nil error, the errors an Init may return, the errors a Run may return.
Nil == "nil"
InitErrors == {"x"}
RunErrors == {"boom"}

VARIABLES
    services,     \* Container.services: sequence of serviceInfo
    runCtx,       \* Container.runCtx / runCtxCancel: "nil", "active", "cancelled"
    parentDone,   \* whether the context handed to StartAll is cancelled
    runContexts,  \* Container.runContexts: name -> runContext
    pc,           \* position of the caller's goroutine
    idx,          \* loop index i of the loop StartAll is in
    startRet,     \* what StartAll returned: <<>> not yet, <<"nil">>, <<"err", name, cause>>
    gpc,          \* position of the goroutine runOne started for a service
    runErr,       \* that goroutine's local runErr
    sender,       \* goroutine started by initOne on a failed Init (runner.done <- nil)
    initLog,      \* names whose Init was invoked, in invocation order
    launchLog,    \* names whose Run goroutine was started, in order
    waitCtx,      \* ctx of WaitAllStoppedTimeout: "none", "active", "deadline", "canceled"
    waitTimed,    \* whether that call was given a timeout != 0
    wpc,          \* position of the waiter goroutine of each run context
    wg,           \* the sync.WaitGroup counter of that call
    joiner,       \* the goroutine doing wg.Wait(); cancel()
    defaultContainer, \* the package variable defaultContainer: 0 (nil) or a Container
    heap,         \* the registries of the Containers NewContainer allocated for Default
    dpc,          \* position of each goroutine calling Default().Register
    dret,         \* what Default() last returned to each of them: 0 none yet, or a Container
    dcalls,       \* how many such calls each of them has completed
    waitRet       \* how the caller's last call, if a wait, returned: "none", "canceled"
                  \* (all waiters joined), "deadline" (timer, every launched done
                  \* closed), "deadlinePending" (timer, some launched done open)

vars == <<services, runCtx, parentDone, runContexts, pc, idx, startRet,
          gpc, runErr, sender, initLog, launchLog, waitCtx, waitTimed, wpc, wg,
          joiner, waitRet, defaultContainer, heap, dpc, dret, dcalls>>

defaultVars == <<defaultContainer, heap, dpc, dret, dcalls>>
containerVars == <<services, runCtx, runContexts>>
startVars == <<pc, idx, startRet, initLog, launchLog>>
goVars == <<gpc, runErr, sender>>
waitVars == <<waitCtx, waitTimed, wpc, wg, joiner, waitRet>>

----------------------------------------------------------------------------
\* Data

\* Faulty variant of newRunContext: a run context is created as running.
newRunContextRunning == [running |-> TRUE, err |-> Nil, closed |-> FALSE, buf |-> 0]

\* newRunContext: running is false, err is nil, done is an open channel of
\* capacity 1 holding nothing.
newRunContext == [running |-> FALSE, err |-> Nil, closed |-> FALSE, buf |-> 0]

\* The names of the registered services, in registration order.
ServiceName(i) == services[i].name

RegisteredNames == {services[i].name : i \in 1..Len(services)}

\* Faulty variant of Cancel: cancelling a cancelled context revives it.
CancelToggles(ctx) ==
    IF ctx = "active" THEN "cancelled" ELSE IF ctx = "cancelled" THEN "active" ELSE ctx

\* context.CancelFunc: cancelling is idempotent.
Cancel(ctx) == IF ctx = "active" THEN "cancelled" ELSE ctx

\* context.WithCancel(parent): the child of a cancelled parent is cancelled.
WithCancel(parentCancelled) == IF parentCancelled THEN "cancelled" ELSE "active"

Cancelled == runCtx = "cancelled"

\* A panic (duplicate Register, second StartAll, StopAll or wait before
\* StartAll) is not recovered anywhere: it ends the process, goroutines
\* included.
Panicked == pc \in {"panicRegister", "panicStartAll", "panicStopAll", "panicWait"}

\* Container.RunningCount
RunningCount == Cardinality({n \in DOMAIN runContexts : runContexts[n].running})

\* Container.ServiceNames (as a set: map iteration order is unspecified)
ServiceNames == DOMAIN runContexts

\* Faulty variant of ServiceErrors: the test rc.err != nil is missing.
ServiceErrorsUnfiltered == [n \in DOMAIN runContexts |-> runContexts[n].err]

\* Container.ServiceErrors
ServiceErrors ==
    [n \in {m \in DOMAIN runContexts : runContexts[m].err # Nil} |-> runContexts[n].err]

\* What a read of rc.err that is not ordered with the write runner.err =
\* runErr can return.  rc.err is an interface value of two words, read in
\* ServiceErrors and written in the goroutine of runOne without
\* synchronisation: while that goroutine is at its write of a non-nil error
\* the read returns the value stored before or a torn value (the words of
\* two different values); otherwise the value stored.
Torn == "torn"

ErrReads(n) ==
    {runContexts[n].err} \cup
        (IF gpc[n] = "returned" /\ runErr[n] # Nil THEN {Torn} ELSE {})

\* The maps a call of ServiceErrors() can return in the current state.
ServiceErrorsSnapshots ==
    {[n \in {m \in DOMAIN f : f[m] # Nil} |-> f[n]] :
        f \in {g \in [DOMAIN runContexts -> {Nil, Torn} \cup RunErrors] :
                  \A n \in DOMAIN runContexts : g[n] \in ErrReads(n)}}

----------------------------------------------------------------------------
Init ==
    /\ services = <<>>
    /\ runCtx = "nil"
    /\ parentDone = FALSE
    /\ runContexts = [n \in {} |-> newRunContext]
    /\ pc = "idle"
    /\ idx = 0
    /\ startRet = <<>>
    /\ gpc = [n \in Names |-> "none"]
    /\ runErr = [n \in Names |-> "unset"]
    /\ sender = [n \in Names |-> "none"]
    /\ initLog = <<>>
    /\ launchLog = <<>>
    /\ waitCtx = "none"
    /\ waitTimed = FALSE
    /\ wpc = [n \in Names |-> "none"]
    /\ wg = 0
    /\ joiner = "none"
    /\ waitRet = "none"
    /\ defaultContainer = 0
    /\ heap = <<>>
    /\ dpc = [g \in Callers |-> "idle"]
    /\ dret = [g \in Callers |-> 0]
    /\ dcalls = [g \in Callers |-> 0]

----------------------------------------------------------------------------
\* Register

\* Faulty variant of Register: the descriptor is appended without the search
\* for its name.
RegisterUnchecked(n) ==
    /\ pc = "idle"
    /\ Len(services) < MaxServices
    /\ services' = Append(services, [name |-> n, hasInit |-> n \in Initers])
    /\ waitRet' = "none"
    /\ UNCHANGED <<defaultVars, runCtx, parentDone, runContexts, startVars, goVars, waitCtx, waitTimed,
                   wpc, wg, joiner>>

\* Register with a name not yet in c.services: the descriptor is appended.
Register(n) ==
    /\ pc = "idle"
    /\ Len(services) < MaxServices
    /\ n \notin RegisteredNames
    /\ services' = Append(services, [name |-> n, hasInit |-> n \in Initers])
    /\ waitRet' = "none"
    /\ UNCHANGED <<defaultVars, runCtx, parentDone, runContexts, startVars, goVars, waitCtx, waitTimed,
                   wpc, wg, joiner>>

\* Register with a name already in c.services panics before the append.
RegisterDuplicate(n) ==
    /\ pc = "idle"
    /\ n \in RegisteredNames
    /\ pc' = "panicRegister"
    /\ UNCHANGED <<defaultVars, containerVars, parentDone, idx, startRet, initLog, launchLog, goVars,
                   waitVars>>

----------------------------------------------------------------------------
\* StartAll: the caller's goroutine

\* Faulty variant of StartAllTwice: a second StartAll derives a new run
\* context and enters the Init loop again.
StartAllAgain ==
    /\ pc = "idle"
    /\ runCtx # "nil"
    /\ Len(services) > 0
    /\ runCtx' = WithCancel(parentDone)
    /\ pc' = "init"
    /\ idx' = 1
    /\ startRet' = <<>>
    /\ UNCHANGED <<defaultVars, services, parentDone, runContexts, initLog, launchLog, goVars, waitVars>>

\* StartAll on a Container whose runCtx is set panics before anything else.
StartAllTwice ==
    /\ pc = "idle"
    /\ runCtx # "nil"
    /\ pc' = "panicStartAll"
    /\ UNCHANGED <<defaultVars, containerVars, parentDone, idx, startRet, initLog, launchLog, goVars,
                   waitVars>>

\* Where the Init loop stands once initOne returned nil for services[i]:
\* the next service, or the head of the Run loop.
AfterInitPc(i) == IF i < Len(services) THEN "init" ELSE "launch"
AfterInitIdx(i) == IF i < Len(services) THEN i + 1 ELSE 1

\* What StartAll returns when initOne failed for service n with err cause:
\* fmt.Errorf("failed to init service %s: %w", s.name, err).
InitError(n, cause) == <<"err", n, cause>>

\* The first statements of StartAll: derive the run context from the parent.
\* With an empty registry both loops are empty and StartAll returns nil.
StartAllBegin ==
    /\ pc = "idle"
    /\ runCtx = "nil"
    /\ runCtx' = WithCancel(parentDone)
    /\ IF Len(services) = 0
       THEN /\ pc' = "idle"
            /\ startRet' = <<"nil">>
            /\ idx' = idx
       ELSE /\ pc' = "init"
            /\ idx' = 1
            /\ UNCHANGED startRet
    /\ UNCHANGED <<defaultVars, services, parentDone, runContexts, initLog, launchLog, goVars, waitVars>>

\* Faulty variant of InitOne: the run context is created but Init is not called
\* for a service that implements it.
InitOneSkipsInit ==
    /\ pc = "init"
    /\ ServiceName(idx) \notin DOMAIN runContexts
    /\ runContexts' = runContexts @@ (ServiceName(idx) :> newRunContext)
    /\ pc' = AfterInitPc(idx)
    /\ idx' = AfterInitIdx(idx)
    /\ UNCHANGED <<defaultVars, services, runCtx, parentDone, startRet, initLog, launchLog,
                   goVars, waitVars>>

\* initOne up to the call of Init: the run context is created and stored;
\* a service that is no Initer is done here.  A name that already has a run
\* context makes initOne return an error, on which StartAll stops all and
\* returns it.
InitOne ==
    /\ pc = "init"
    /\ LET s == services[idx] IN
       IF s.name \in DOMAIN runContexts
       THEN /\ runCtx' = Cancel(runCtx)
            /\ startRet' = <<"err", s.name, "already started">>
            /\ pc' = "idle"
            /\ UNCHANGED <<runContexts, idx, initLog>>
       ELSE /\ runContexts' = runContexts @@ (s.name :> newRunContext)
            /\ IF s.hasInit
               THEN /\ pc' = "inInit"
                    /\ initLog' = Append(initLog, s.name)
                    /\ idx' = idx
               ELSE /\ pc' = AfterInitPc(idx)
                    /\ idx' = AfterInitIdx(idx)
                    /\ initLog' = initLog
            /\ UNCHANGED <<runCtx, startRet>>
    /\ UNCHANGED <<defaultVars, services, parentDone, launchLog, goVars, waitVars>>

\* Faulty variant of InitReturnsNil: the service is started as soon as its own Init
\* has returned, before the next service is initialized.
InitReturnsNilThenRuns ==
    /\ pc = "inInit"
    /\ runContexts' = [runContexts EXCEPT ![ServiceName(idx)].running = TRUE]
    /\ gpc' = [gpc EXCEPT ![ServiceName(idx)] = "spawned"]
    /\ launchLog' = Append(launchLog, ServiceName(idx))
    /\ pc' = AfterInitPc(idx)
    /\ idx' = AfterInitIdx(idx)
    /\ UNCHANGED <<defaultVars, services, runCtx, parentDone, startRet, initLog, runErr, sender, waitVars>>

\* Init returned nil: initOne returns nil and the loop goes on.
InitReturnsNil ==
    /\ pc = "inInit"
    /\ pc' = AfterInitPc(idx)
    /\ idx' = AfterInitIdx(idx)
    /\ UNCHANGED <<defaultVars, containerVars, parentDone, startRet, initLog, launchLog,
                   goVars, waitVars>>

\* Faulty variant of InitReturnsError: the error is logged and the goroutine
\* started, but the loop goes on as if Init had returned nil.
InitReturnsErrorContinues(cause) ==
    /\ pc = "inInit"
    /\ sender' = [sender EXCEPT ![ServiceName(idx)] = "pending"]
    /\ pc' = AfterInitPc(idx)
    /\ idx' = AfterInitIdx(idx)
    /\ UNCHANGED <<defaultVars, containerVars, parentDone, startRet, initLog, launchLog, gpc, runErr,
                   waitVars>>

\* Faulty variant of InitReturnsError: StartAll returns the error without
\* calling StopAll.
InitReturnsErrorNoStop(cause) ==
    /\ pc = "inInit"
    /\ sender' = [sender EXCEPT ![ServiceName(idx)] = "pending"]
    /\ startRet' = InitError(ServiceName(idx), cause)
    /\ pc' = "idle"
    /\ UNCHANGED <<defaultVars, containerVars, parentDone, idx, initLog, launchLog, gpc, runErr, waitVars>>

\* Init returned an error: initOne starts the goroutine that sends nil on
\* runner.done and returns the wrapped error; StartAll calls StopAll and
\* returns that error.
InitReturnsError(cause) ==
    /\ pc = "inInit"
    /\ sender' = [sender EXCEPT ![ServiceName(idx)] = "pending"]
    /\ runCtx' = Cancel(runCtx)
    /\ startRet' = InitError(ServiceName(idx), cause)
    /\ pc' = "idle"
    /\ UNCHANGED <<defaultVars, services, parentDone, runContexts, idx, initLog, launchLog,
                   gpc, runErr, waitVars>>

\* Faulty variant of InitFailSend: the goroutine sends nil and closes the channel
\* as well.
InitFailSendAndClose(n) ==
    /\ ~Panicked
    /\ sender[n] = "pending"
    /\ n \in DOMAIN runContexts
    /\ runContexts[n].buf = 0
    /\ ~runContexts[n].closed
    /\ runContexts' = [runContexts EXCEPT ![n].buf = 1, ![n].closed = TRUE]
    /\ sender' = [sender EXCEPT ![n] = "sent"]
    /\ UNCHANGED <<defaultVars, services, runCtx, parentDone, startVars, gpc, runErr, waitVars>>

\* The goroutine of a failed Init: runner.done <- nil on the buffered channel.
InitFailSend(n) ==
    /\ ~Panicked
    /\ sender[n] = "pending"
    /\ n \in DOMAIN runContexts
    /\ runContexts[n].buf = 0
    /\ ~runContexts[n].closed
    /\ runContexts' = [runContexts EXCEPT ![n].buf = 1]
    /\ sender' = [sender EXCEPT ![n] = "sent"]
    /\ UNCHANGED <<defaultVars, services, runCtx, parentDone, startVars, gpc, runErr, waitVars>>

\* Faulty variant of RunOne: runOne fails, and StartAll returns its error, when the
\* run context is already cancelled.
RunOneFailsWhenCancelled ==
    /\ pc = "launch"
    /\ LET n == ServiceName(idx) IN
       IF Cancelled
       THEN /\ startRet' = <<"err", n, "context canceled">>
            /\ pc' = "idle"
            /\ UNCHANGED <<runContexts, gpc, launchLog, idx>>
       ELSE /\ runContexts' = [runContexts EXCEPT ![n].running = TRUE]
            /\ gpc' = [gpc EXCEPT ![n] = "spawned"]
            /\ launchLog' = Append(launchLog, n)
            /\ IF idx < Len(services)
               THEN /\ idx' = idx + 1
                    /\ pc' = "launch"
                    /\ UNCHANGED startRet
               ELSE /\ idx' = idx
                    /\ pc' = "idle"
                    /\ startRet' = <<"nil">>
    /\ UNCHANGED <<defaultVars, services, runCtx, parentDone, initLog, runErr, sender, waitVars>>

\* Faulty variant of RunOne: the goroutine is started but the run context is not
\* marked running.
RunOneNotMarked ==
    /\ pc = "launch"
    /\ gpc' = [gpc EXCEPT ![ServiceName(idx)] = "spawned"]
    /\ launchLog' = Append(launchLog, ServiceName(idx))
    /\ IF idx < Len(services)
       THEN /\ idx' = idx + 1
            /\ pc' = "launch"
            /\ UNCHANGED startRet
       ELSE /\ idx' = idx
            /\ pc' = "idle"
            /\ startRet' = <<"nil">>
    /\ UNCHANGED <<defaultVars, containerVars, parentDone, initLog, runErr, sender, waitVars>>

\* Faulty variant of RunOne: a service is not started once the run context is
\* cancelled.
RunOneUnlessCancelled ==
    /\ pc = "launch"
    /\ LET n == ServiceName(idx) IN
       /\ runContexts' = IF Cancelled THEN runContexts
                         ELSE [runContexts EXCEPT ![n].running = TRUE]
       /\ gpc' = IF Cancelled THEN gpc ELSE [gpc EXCEPT ![n] = "spawned"]
       /\ launchLog' = IF Cancelled THEN launchLog ELSE Append(launchLog, n)
       /\ IF idx < Len(services)
          THEN /\ idx' = idx + 1
               /\ pc' = "launch"
               /\ UNCHANGED startRet
          ELSE /\ idx' = idx
               /\ pc' = "idle"
               /\ startRet' = <<"nil">>
    /\ UNCHANGED <<defaultVars, services, runCtx, parentDone, initLog, runErr, sender, waitVars>>

\* runOne for services[idx]: mark the run context running and start the
\* goroutine; after the last service StartAll returns nil.  A missing or
\* already running run context makes runOne return an error, on which
\* StartAll stops all and returns it.
RunOne ==
    /\ pc = "launch"
    /\ LET n == ServiceName(idx) IN
       IF n \notin DOMAIN runContexts \/ runContexts[n].running
       THEN /\ runCtx' = Cancel(runCtx)
            /\ startRet' = <<"err", n, "not runnable">>
            /\ pc' = "idle"
            /\ UNCHANGED <<runContexts, gpc, launchLog, idx>>
       ELSE /\ runContexts' = [runContexts EXCEPT ![n].running = TRUE]
            /\ gpc' = [gpc EXCEPT ![n] = "spawned"]
            /\ launchLog' = Append(launchLog, n)
            /\ runCtx' = runCtx
            /\ IF idx < Len(services)
               THEN /\ idx' = idx + 1
                    /\ pc' = "launch"
                    /\ UNCHANGED startRet
               ELSE /\ idx' = idx
                    /\ pc' = "idle"
                    /\ startRet' = <<"nil">>
    /\ UNCHANGED <<defaultVars, services, parentDone, initLog, runErr, sender, waitVars>>

----------------------------------------------------------------------------
\* The goroutine runOne starts for service n

\* The goroutine is scheduled and calls s.service.Run(ctx).
RunInvoke(n) ==
    /\ ~Panicked
    /\ gpc[n] = "spawned"
    /\ gpc' = [gpc EXCEPT ![n] = "inRun"]
    /\ UNCHANGED <<defaultVars, containerVars, parentDone, startVars, runErr, sender, waitVars>>

\* Run returns res, of its own accord or because it saw ctx.Done().
RunReturn(n, res) ==
    /\ ~Panicked
    /\ gpc[n] = "inRun"
    /\ runErr' = [runErr EXCEPT ![n] = res]
    /\ gpc' = [gpc EXCEPT ![n] = "returned"]
    /\ UNCHANGED <<defaultVars, containerVars, parentDone, startVars, sender, waitVars>>

\* Faulty variant of SetErr: the goroutine clears the running flag together with
\* storing the error.
SetErrAndStop(n) ==
    /\ ~Panicked
    /\ gpc[n] = "returned"
    /\ runContexts' = [runContexts EXCEPT ![n].err = runErr[n], ![n].running = FALSE]
    /\ gpc' = [gpc EXCEPT ![n] = "errSet"]
    /\ UNCHANGED <<defaultVars, services, runCtx, parentDone, startVars, runErr, sender, waitVars>>

\* runner.err = runErr
SetErr(n) ==
    /\ ~Panicked
    /\ gpc[n] = "returned"
    /\ runContexts' = [runContexts EXCEPT ![n].err = runErr[n]]
    /\ gpc' = [gpc EXCEPT ![n] = "errSet"]
    /\ UNCHANGED <<defaultVars, services, runCtx, parentDone, startVars, runErr, sender, waitVars>>

\* Faulty variant of SetNotRunning: the goroutine goes on to close(runner.done)
\* without clearing the running flag.
SetNotRunningOmitted(n) ==
    /\ ~Panicked
    /\ gpc[n] = "errSet"
    /\ gpc' = [gpc EXCEPT ![n] = "notRunning"]
    /\ UNCHANGED <<defaultVars, containerVars, parentDone, startVars, runErr, sender, waitVars>>

\* runner.running = false
SetNotRunning(n) ==
    /\ ~Panicked
    /\ gpc[n] = "errSet"
    /\ runContexts' = [runContexts EXCEPT ![n].running = FALSE]
    /\ gpc' = [gpc EXCEPT ![n] = "notRunning"]
    /\ UNCHANGED <<defaultVars, services, runCtx, parentDone, startVars, runErr, sender, waitVars>>

\* Faulty variant of AfterClose: the goroutine goes on to c.StopAll() whatever
\* Run returned.
AfterCloseAlways(n) == "closed"

\* Faulty variant of AfterClose: the goroutine ends after close(runner.done)
\* whatever Run returned.
AfterCloseNever(n) == "exit"

\* Where the goroutine goes after close(runner.done): on to c.StopAll() if
\* runErr != nil, and to its end otherwise.
AfterClose(n) == IF runErr[n] # Nil THEN "closed" ELSE "exit"

\* close(runner.done)
CloseDone(n) ==
    /\ ~Panicked
    /\ gpc[n] = "notRunning"
    /\ runContexts' = [runContexts EXCEPT ![n].closed = TRUE]
    /\ gpc' = [gpc EXCEPT ![n] = AfterClose(n)]
    /\ UNCHANGED <<defaultVars, services, runCtx, parentDone, startVars, runErr, sender, waitVars>>

\* Faulty variant of FailStopAll: the goroutine of a failed Run ends without
\* calling c.StopAll().
FailStopAllOmitted(n) ==
    /\ ~Panicked
    /\ gpc[n] = "closed"
    /\ gpc' = [gpc EXCEPT ![n] = "exit"]
    /\ UNCHANGED <<defaultVars, containerVars, parentDone, startVars, runErr, sender, waitVars>>

\* c.onStopAll(); c.StopAll() of a Run that returned an error.
FailStopAll(n) ==
    /\ ~Panicked
    /\ gpc[n] = "closed"
    /\ runCtx' = Cancel(runCtx)
    /\ gpc' = [gpc EXCEPT ![n] = "exit"]
    /\ UNCHANGED <<defaultVars, services, parentDone, runContexts, startVars, runErr, sender, waitVars>>

----------------------------------------------------------------------------
\* StopAll and the parent context

\* Faulty variant of StopAllUnstarted: StopAll panics whether or not StartAll
\* was called.
StopAllPanics ==
    /\ pc = "idle"
    /\ pc' = "panicStopAll"
    /\ UNCHANGED <<defaultVars, containerVars, parentDone, idx, startRet, initLog, launchLog, goVars,
                   waitVars>>

\* StopAll before StartAll panics.
StopAllUnstarted ==
    /\ pc = "idle"
    /\ runCtx = "nil"
    /\ pc' = "panicStopAll"
    /\ UNCHANGED <<defaultVars, containerVars, parentDone, idx, startRet, initLog, launchLog, goVars,
                   waitVars>>

\* Faulty variant of StopAll: StopAll also marks every run context as not
\* running.
StopAllMarksStopped ==
    /\ pc \in {"idle", "wait"}
    /\ runCtx # "nil"
    /\ runCtx' = Cancel(runCtx)
    /\ runContexts' = [n \in DOMAIN runContexts |-> [runContexts[n] EXCEPT !.running = FALSE]]
    /\ waitRet' = IF pc = "idle" THEN "none" ELSE waitRet
    /\ UNCHANGED <<defaultVars, services, parentDone, startVars, goVars, waitCtx, waitTimed,
                   wpc, wg, joiner>>

\* StopAll calls c.runCtxCancel().  It is called by the goroutine that
\* called StartAll, or by another one while that one is blocked waiting.
StopAll ==
    /\ pc \in {"idle", "wait"}
    /\ runCtx # "nil"
    /\ runCtx' = Cancel(runCtx)
    /\ waitRet' = IF pc = "idle" THEN "none" ELSE waitRet
    /\ UNCHANGED <<defaultVars, services, parentDone, runContexts, startVars, goVars, waitCtx, waitTimed,
                   wpc, wg, joiner>>

\* Faulty variant of ParentCancel: the run context is not derived from the
\* parent, whose cancellation leaves it alone.
ParentCancelDetached ==
    /\ ~Panicked
    /\ ~parentDone
    /\ parentDone' = TRUE
    /\ UNCHANGED <<defaultVars, containerVars, startVars, goVars, waitVars>>

\* The owner of the context given to StartAll cancels it; a run context
\* derived from it is cancelled with it.
ParentCancel ==
    /\ ~Panicked
    /\ ~parentDone
    /\ parentDone' = TRUE
    /\ runCtx' = Cancel(runCtx)
    /\ UNCHANGED <<defaultVars, services, runContexts, startVars, goVars, waitVars>>

----------------------------------------------------------------------------
\* WaitAllStopped / WaitAllStoppedTimeout

\* Waiting before StartAll panics.
WaitUnstarted ==
    /\ pc = "idle"
    /\ runCtx = "nil"
    /\ pc' = "panicWait"
    /\ UNCHANGED <<defaultVars, containerVars, parentDone, idx, startRet, initLog, launchLog, goVars,
                   waitVars>>

\* The launched services whose done channel is not closed yet.
NotSignaled == {n \in DOMAIN runContexts : gpc[n] # "none" /\ ~runContexts[n].closed}

\* WaitAllStoppedTimeout up to <-ctx.Done(): the context (with a deadline iff
\* timeout != 0), wg.Add(len(c.runContexts)), one waiter goroutine per run
\* context and the goroutine that joins them.
WaitBegin(timed) ==
    /\ pc = "idle"
    /\ runCtx # "nil"
    /\ waitCtx' = "active"
    /\ waitTimed' = timed
    /\ wg' = Cardinality(DOMAIN runContexts)
    /\ wpc' = [n \in Names |-> IF n \in DOMAIN runContexts THEN "spawned" ELSE "none"]
    /\ joiner' = "waiting"
    /\ waitRet' = "none"
    /\ pc' = "wait"
    /\ UNCHANGED <<defaultVars, containerVars, parentDone, idx, startRet, initLog, launchLog,
                   goVars>>

\* Faulty variant of WaitSkips: a run context is not waited for either once the
\* container's context is cancelled.
WaitSkipsCancelled(n) == ~runContexts[n].running \/ Cancelled

\* runContext.wait, first statement: a run context that is not running is
\* not waited for.
WaitSkips(n) == ~runContexts[n].running

\* A waiter goroutine evaluates !rc.running: it is done (wg.Done()) if the
\* run context is not running, and goes on to <-rc.done otherwise.
WaiterCheck(n) ==
    /\ wpc[n] = "spawned"
    /\ IF WaitSkips(n)
       THEN /\ wpc' = [wpc EXCEPT ![n] = "finished"]
            /\ wg' = wg - 1
       ELSE /\ wpc' = [wpc EXCEPT ![n] = "recv"]
            /\ wg' = wg
    /\ UNCHANGED <<defaultVars, containerVars, parentDone, startVars, goVars, waitCtx,
                   waitTimed, joiner, waitRet>>

\* Faulty variant of WaiterRecv: the waiter stores what it received and clears the
\* running flag (rc.err = <-rc.done; rc.running = false).
WaiterRecvRecords(n) ==
    /\ wpc[n] = "recv"
    /\ runContexts[n].closed \/ runContexts[n].buf > 0
    /\ runContexts' = [runContexts EXCEPT ![n].buf = 0, ![n].err = Nil,
                                          ![n].running = FALSE]
    /\ wpc' = [wpc EXCEPT ![n] = "finished"]
    /\ wg' = wg - 1
    /\ UNCHANGED <<defaultVars, services, runCtx, parentDone, startVars, goVars, waitCtx,
                   waitTimed, joiner, waitRet>>

\* <-rc.done returns once the channel is closed or holds a value (which the
\* receive takes); then wg.Done().
WaiterRecv(n) ==
    /\ wpc[n] = "recv"
    /\ runContexts[n].closed \/ runContexts[n].buf > 0
    /\ runContexts' = IF runContexts[n].buf > 0
                      THEN [runContexts EXCEPT ![n].buf = 0]
                      ELSE runContexts
    /\ wpc' = [wpc EXCEPT ![n] = "finished"]
    /\ wg' = wg - 1
    /\ UNCHANGED <<defaultVars, services, runCtx, parentDone, startVars, goVars, waitCtx,
                   waitTimed, joiner, waitRet>>

\* wg.Wait() returns when the counter is 0; then cancel().
JoinerCancel ==
    /\ joiner = "waiting"
    /\ wg = 0
    /\ joiner' = "done"
    /\ waitCtx' = IF waitCtx = "active" THEN "canceled" ELSE waitCtx
    /\ UNCHANGED <<defaultVars, containerVars, parentDone, startVars, goVars, waitTimed,
                   wpc, wg, waitRet>>

\* The timer of context.WithTimeout fires.
DeadlineFires ==
    /\ waitCtx = "active"
    /\ waitTimed
    /\ waitCtx' = "deadline"
    /\ UNCHANGED <<defaultVars, containerVars, parentDone, startVars, goVars, waitTimed,
                   wpc, wg, joiner, waitRet>>

\* Why <-ctx.Done() returned, and whether every launched service had closed
\* its done channel by then.
WaitOutcome ==
    IF waitCtx = "canceled" THEN "canceled"
    ELSE IF NotSignaled = {} THEN "deadline" ELSE "deadlinePending"

\* Faulty variant of WaitReturn: the caller waits for the join (wg.Wait()) instead
\* of <-ctx.Done().
WaitReturnOnJoin ==
    /\ pc = "wait"
    /\ waitCtx = "canceled"
    /\ pc' = "idle"
    /\ waitRet' = WaitOutcome
    /\ waitCtx' = "none"
    /\ waitTimed' = FALSE
    /\ wpc' = [n \in Names |-> "none"]
    /\ wg' = 0
    /\ joiner' = "none"
    /\ UNCHANGED <<defaultVars, containerVars, parentDone, idx, startRet, initLog, launchLog, goVars>>

\* <-ctx.Done() returns and with it WaitAllStoppedTimeout.  The goroutines
\* the call leaves behind touch nothing but the call's own wg and ctx, so
\* they are dropped here.
WaitReturn ==
    /\ pc = "wait"
    /\ waitCtx \in {"deadline", "canceled"}
    /\ pc' = "idle"
    /\ waitRet' = WaitOutcome
    /\ waitCtx' = "none"
    /\ waitTimed' = FALSE
    /\ wpc' = [n \in Names |-> "none"]
    /\ wg' = 0
    /\ joiner' = "none"
    /\ UNCHANGED <<defaultVars, containerVars, parentDone, idx, startRet, initLog, launchLog, goVars>>

----------------------------------------------------------------------------
\* Default(): the lazily created package-level container, and goroutines
\* that register with it (Default().Register, Builder.RegisterDefault).
\* defaultContainer is read and written without synchronisation; each
\* statement of Default is one step.

mainVars == <<services, runCtx, parentDone, runContexts, pc, idx, startRet,
              gpc, runErr, sender, initLog, launchLog, waitCtx, waitTimed, wpc, wg,
              joiner, waitRet>>

\* A goroutine calls Default() and evaluates defaultContainer == nil.
DefaultTest(g) ==
    /\ dpc[g] = "idle"
    /\ dcalls[g] < MaxCalls
    /\ dpc' = [dpc EXCEPT ![g] = IF defaultContainer = 0 THEN "new" ELSE "ret"]
    /\ UNCHANGED <<mainVars, defaultContainer, heap, dret, dcalls>>

\* defaultContainer = NewContainer()
DefaultNew(g) ==
    /\ dpc[g] = "new"
    /\ heap' = Append(heap, <<>>)
    /\ defaultContainer' = Len(heap) + 1
    /\ dpc' = [dpc EXCEPT ![g] = "ret"]
    /\ UNCHANGED <<mainVars, dret, dcalls>>

\* return defaultContainer
DefaultReturn(g) ==
    /\ dpc[g] = "ret"
    /\ dret' = [dret EXCEPT ![g] = defaultContainer]
    /\ dpc' = [dpc EXCEPT ![g] = "register"]
    /\ UNCHANGED <<mainVars, defaultContainer, heap, dcalls>>

\* .Register(service) on the container Default() returned: the descriptor,
\* named after the goroutine and its call, is appended to that container's
\* registry.
DefaultRegister(g) ==
    /\ dpc[g] = "register"
    /\ heap' = [heap EXCEPT ![dret[g]] = Append(@, <<g, dcalls[g] + 1>>)]
    /\ dcalls' = [dcalls EXCEPT ![g] = @ + 1]
    /\ dpc' = [dpc EXCEPT ![g] = "idle"]
    /\ UNCHANGED <<mainVars, defaultContainer, dret>>

DefaultNext ==
    \/ \E g \in Callers : DefaultTest(g)
    \/ \E g \in Callers : DefaultNew(g)
    \/ \E g \in Callers : DefaultReturn(g)
    \/ \E g \in Callers : DefaultRegister(g)

DefaultSpec == Init /\ [][DefaultNext]_vars

----------------------------------------------------------------------------
Next ==
    \/ \E n \in Names : Register(n)
    \/ \E n \in Names : RegisterDuplicate(n)
    \/ StartAllTwice
    \/ StartAllBegin
    \/ InitOne
    \/ InitReturnsNil
    \/ \E cause \in InitErrors : InitReturnsError(cause)
    \/ \E n \in Names : InitFailSend(n)
    \/ RunOne
    \/ \E n \in Names : RunInvoke(n)
    \/ \E n \in Names, res \in {Nil} \cup RunErrors : RunReturn(n, res)
    \/ \E n \in Names : SetErr(n)
    \/ \E n \in Names : SetNotRunning(n)
    \/ \E n \in Names : CloseDone(n)
    \/ \E n \in Names : FailStopAll(n)
    \/ StopAllUnstarted
    \/ StopAll
    \/ ParentCancel
    \/ WaitUnstarted
    \/ \E timed \in BOOLEAN : WaitBegin(timed)
    \/ \E n \in Names : WaiterCheck(n)
    \/ \E n \in Names : WaiterRecv(n)
    \/ JoinerCancel
    \/ DeadlineFires
    \/ WaitReturn

Spec == Init /\ [][Next]_vars

TypeOK ==
    /\ runCtx \in {"nil", "active", "cancelled"}
    /\ parentDone \in BOOLEAN
    /\ DOMAIN runContexts \subseteq Names
    /\ pc \in {"idle", "init", "inInit", "launch", "wait"} \/ Panicked
    /\ \A n \in Names : gpc[n] \in {"none", "spawned", "inRun", "returned", "errSet",
                                    "notRunning", "closed", "exit"}
    /\ wg \in 0..Cardinality(Names)

----------------------------------------------------------------------------
\* Fairness: the Go scheduler runs every runnable goroutine eventually, a
\* timer that is armed fires, an Init that was called returns, and a
\* cooperating service returns from Run once its context is cancelled.
\* Nothing obliges the caller to make a further call, a service to return
\* while its context is live, or a non-cooperating service to return at all.
Fairness ==
    /\ WF_vars(InitOne)
    /\ WF_vars(InitReturnsNil \/ \E cause \in InitErrors : InitReturnsError(cause))
    /\ WF_vars(RunOne)
    /\ \A n \in Names :
        /\ WF_vars(InitFailSend(n))
        /\ WF_vars(RunInvoke(n))
        /\ WF_vars(SetErr(n))
        /\ WF_vars(SetNotRunning(n))
        /\ WF_vars(CloseDone(n))
        /\ WF_vars(FailStopAll(n))
        /\ WF_vars(WaiterCheck(n))
        /\ WF_vars(WaiterRecv(n))
    /\ \A n \in Cooperating :
        WF_vars(Cancelled /\ \E res \in {Nil} \cup RunErrors : RunReturn(n, res))
    /\ WF_vars(JoinerCancel)
    /\ WF_vars(DeadlineFires)
    /\ WF_vars(WaitReturn)

LiveSpec == Spec /\ Fairness

----------------------------------------------------------------------------
\* Vocabulary of the properties

NamesOf(seq) == [i \in 1..Len(seq) |-> seq[i].name]

IsIniter(d) == d.hasInit

\* Position of a registered name in the registry.
IndexOf(n) == CHOOSE i \in 1..Len(services) : services[i].name = n

\* The Init of n returned an error (initOne started the goroutine of its
\* failure branch).
InitFailed(n) == sender[n] # "none"

\* The Run of n was invoked / has returned.
RunInvoked(n) == gpc[n] \notin {"none", "spawned"}
RunReturned(n) == gpc[n] \notin {"none", "spawned", "inRun"}

\* The names that had a run goroutine started.
Launched == {n \in Names : gpc[n] # "none"}

\* The terminal state of a launched service: not running, completion signaled.
Terminal(n) ==
    /\ n \in DOMAIN runContexts
    /\ ~runContexts[n].running
    /\ runContexts[n].closed

----------------------------------------------------------------------------
\* C1: when the Init of the k-th registered service fails, Init has been
\* invoked for exactly the Initers among services 1..k, in registration
\* order, no Run goroutine was started for any service, and StartAll has
\* returned an error that names the k-th service and wraps the cause.
C1_InitFailureStopsStartup ==
    \A n \in Names :
        InitFailed(n) =>
            /\ n \in RegisteredNames
            /\ initLog = NamesOf(SelectSeq(SubSeq(services, 1, IndexOf(n)), IsIniter))
            /\ launchLog = <<>>
            /\ \A m \in Names : gpc[m] = "none"
            /\ \E cause \in InitErrors : startRet = <<"err", n, cause>>

\* The second of two services failed its Init after the first one's succeeded.
C1_Witness ==
    /\ Len(services) = 2
    /\ services[1].hasInit
    /\ InitFailed(services[2].name)
    /\ startRet = <<"err", services[2].name, "x">>

----------------------------------------------------------------------------
\* C2: once the Run of a service has returned an error, every other
\* cooperating service of the container eventually reaches its terminal
\* state (not running, completion signaled), whether or not StopAll is
\* called or the parent is cancelled, as long as the process lives.
C2_RunFailureStopsOthers ==
    \A s \in Names : \A t \in Cooperating \ {s} :
        (runErr[s] \in RunErrors /\ t \in DOMAIN runContexts)
            ~> (Terminal(t) \/ Panicked)

\* A failed Run and a cooperating service that returned nil after the
\* cancellation the failure caused, the parent context still live.
C2_Witness ==
    \E s \in Names : \E t \in Cooperating \ {s} :
        /\ runErr[s] \in RunErrors
        /\ runErr[t] = Nil
        /\ Terminal(t)
        /\ Cancelled
        /\ ~parentDone

----------------------------------------------------------------------------
\* C3: once every launched service has terminated, ServiceErrors() maps
\* exactly the services whose Run returned a non-nil error, each to that
\* error; a service whose Init failed is never in it.
C3_ServiceErrorsExact ==
    /\ (\A n \in Launched : Terminal(n)) =>
           ServiceErrors = [n \in {m \in Names : runErr[m] \in RunErrors} |-> runErr[n]]
    /\ \A n \in Names : InitFailed(n) => n \notin DOMAIN ServiceErrors

\* Two services terminated, one with an error and one with nil.
C3_Witness ==
    /\ Cardinality(Launched) = 2
    /\ \A n \in Launched : Terminal(n)
    /\ \E n \in Launched : runErr[n] \in RunErrors
    /\ \E n \in Launched : runErr[n] = Nil

----------------------------------------------------------------------------
\* C4: when StartAll returns nil it has started a Run goroutine for every
\* registered service, in registration order, cancelled context or not;
\* a wait that returns because all waiters joined leaves every launched
\* service with its Run returned and not running; and after StopAll an
\* untimed wait on cooperating services does return.
C4_AllStopped == \A n \in Launched : RunReturned(n) /\ ~runContexts[n].running

----------------------------------------------------------------------------
\* C5: an untimed wait returns only when every launched Run has signaled
\* completion: in the state in which it returns every launched done channel
\* is closed, RunningCount() is 0 and every launched run context holds the
\* error its Run returned.
C5_UntimedWaitReturnsWhenAllSignaled ==
    [][(pc = "wait" /\ ~waitTimed /\ pc' = "idle") =>
          /\ NotSignaled' = {}
          /\ RunningCount' = 0
          /\ \A n \in Launched' : runContexts'[n].err = runErr'[n]]_vars

----------------------------------------------------------------------------
\* C6: a timed wait returns, even if no service ever completes; once its
\* deadline has fired it returns, and if all waiters joined first it
\* returns as completed without the deadline firing.
C6_TimedWaitReturns ==
    /\ (pc = "wait" /\ waitTimed) ~> (pc = "idle")
    /\ (pc = "wait" /\ waitCtx = "deadline") ~> (waitRet \in {"deadline", "deadlinePending"})
    /\ (pc = "wait" /\ waitTimed /\ waitCtx = "canceled") ~> (waitRet = "canceled")

\* The wait returned on its deadline while every launched Run was still
\* executing and nothing had been cancelled.
C6_Witness ==
    /\ waitRet = "deadlinePending"
    /\ Launched # {}
    /\ \A n \in Launched : gpc[n] = "inRun"
    /\ ~Cancelled

----------------------------------------------------------------------------
\* C7 as stated: after a wait that returned on its deadline while some
\* launched service had not signaled completion, RunningCount() is greater
\* than zero.
C7_RunningAfterDeadline == waitRet = "deadlinePending" => RunningCount > 0

\* C7 as amended: after a wait that returned on its deadline, RunningCount()
\* is greater than zero as long as the Run of some launched service has not
\* returned.
C7_RunningWhileRunNotReturned ==
    (waitRet \in {"deadline", "deadlinePending"} /\ \E n \in Launched : ~RunReturned(n))
        => RunningCount > 0

\* The wait returned on its deadline with one Run returned and terminated
\* and the other still executing.
C7_Witness ==
    /\ waitRet = "deadlinePending"
    /\ \E n \in Launched : Terminal(n)
    /\ \E n \in Launched : gpc[n] = "inRun"

----------------------------------------------------------------------------
\* C8: no step of a wait (its start, its waiter goroutines, its joiner, its
\* timer, its return) changes the run context's cancellation, the registry,
\* the set of run contexts, a running flag, a terminal error or the
\* position of a Run goroutine.
C8_WaitStep == <<waitCtx, waitTimed, wpc, wg, joiner>>' # <<waitCtx, waitTimed, wpc, wg, joiner>>

C8_WaitingChangesNothing ==
    [][C8_WaitStep =>
          /\ runCtx' = runCtx
          /\ parentDone' = parentDone
          /\ services' = services
          /\ DOMAIN runContexts' = DOMAIN runContexts
          /\ \A n \in DOMAIN runContexts :
                /\ runContexts'[n].running = runContexts[n].running
                /\ runContexts'[n].err = runContexts[n].err
          /\ gpc' = gpc]_vars

\* A wait returned on its deadline and the services are running as before,
\* their context live.
C8_Witness ==
    /\ waitRet = "deadlinePending"
    /\ RunningCount = 2
    /\ runCtx = "active"

----------------------------------------------------------------------------
\* C9: Init is invoked in registration order, the Init in progress is the
\* one invoked last, no Run goroutine exists while the Init loop is still
\* running, and Run goroutines are started in registration order.
C9_SequentialInitThenRun ==
    /\ initLog = NamesOf(SelectSeq(SubSeq(services, 1, Cardinality(DOMAIN runContexts)),
                                   IsIniter))
    /\ pc = "inInit" => initLog # <<>> /\ initLog[Len(initLog)] = ServiceName(idx)
    /\ Launched # {} => pc \notin {"init", "inInit"}
    /\ launchLog = NamesOf(SubSeq(services, 1, Len(launchLog)))
    /\ Launched = {launchLog[i] : i \in 1..Len(launchLog)}

\* Both services are Initers, both Inits have returned, the Run of the
\* first is executing and the second is being started.
C9_Witness ==
    /\ pc = "launch"
    /\ idx = 2
    /\ Len(initLog) = 2
    /\ RunInvoked(services[1].name)

----------------------------------------------------------------------------
\* C10: what StartAll returns is nil unless an Init failed, and is the
\* wrapped error of the failed Init otherwise; a Run that failed, before or
\* after StartAll returned, does not change it.
C10_StartAllReturnsInitOutcome ==
    /\ startRet # <<>> =>
          IF \E n \in Names : InitFailed(n)
          THEN \E n \in Names, cause \in InitErrors :
                  InitFailed(n) /\ startRet = <<"err", n, cause>>
          ELSE startRet = <<"nil">>
    /\ pc \in {"init", "inInit", "launch"} => startRet = <<>>

\* StartAll returned nil although the Run of the first service failed and
\* cancelled the context while the second service's goroutine has not run yet.
C10_Witness ==
    /\ startRet = <<"nil">>
    /\ Len(launchLog) = 2
    /\ runErr[launchLog[1]] \in RunErrors
    /\ gpc[launchLog[1]] = "exit"
    /\ gpc[launchLog[2]] = "spawned"
    /\ Cancelled

----------------------------------------------------------------------------
\* C11: a Register call with a name already in the registry panics and
\* leaves the registry as it was; the registry changes only by appending a
\* descriptor whose name is not yet in it, so no two descriptors ever share
\* a name and the descriptors stay in insertion order.
C11_DistinctNames ==
    \A i, j \in 1..Len(services) : services[i].name = services[j].name => i = j

C11_DuplicateRegisterPanics ==
    /\ [][(pc # "panicRegister" /\ pc' = "panicRegister") =>
             /\ \E n \in RegisteredNames : RegisterDuplicate(n)
             /\ services' = services]_vars
    /\ [][services' # services =>
             \E n \in Names \ RegisteredNames :
                 services' = Append(services, [name |-> n, hasInit |-> n \in Initers])]_vars
    /\ []C11_DistinctNames

\* A duplicate registration panicked with two distinct names registered.
C11_Witness ==
    /\ pc = "panicRegister"
    /\ Len(services) = 2
    /\ services[1].name # services[2].name

----------------------------------------------------------------------------
\* C12: a StartAll call on a container whose run context is set panics and
\* changes nothing else; the run context, once set, is never replaced (it
\* can only become cancelled), the caller never re-enters the Init or Run
\* loop, and no Init or Run is invoked twice.
C12_NoRepeat(log) == \A i, j \in 1..Len(log) : log[i] = log[j] => i = j

C12_SecondStartAllChangesNothing ==
    /\ [][(pc # "panicStartAll" /\ pc' = "panicStartAll") =>
             /\ runCtx # "nil"
             /\ UNCHANGED <<containerVars, parentDone, idx, startRet, initLog,
                            launchLog, goVars, waitVars>>]_vars
    /\ [][runCtx # "nil" => runCtx' \in {runCtx, "cancelled"}]_vars
    /\ [][(pc = "idle" /\ runCtx # "nil") => pc' \notin {"init", "inInit", "launch"}]_vars
    /\ [](C12_NoRepeat(initLog) /\ C12_NoRepeat(launchLog))

\* A second StartAll panicked after a successful start, a service running
\* and its context live.
C12_Witness ==
    /\ pc = "panicStartAll"
    /\ startRet = <<"nil">>
    /\ runCtx = "active"
    /\ \E n \in Names : gpc[n] = "inRun" /\ runContexts[n].running

----------------------------------------------------------------------------
\* C13: StopAll and the waits panic when called before StartAll, leaving
\* the container as it was, and a call before StartAll does nothing else;
\* once StartAll has begun they never panic this way.
C13_UnstartedStopOrWaitPanics ==
    /\ [][(pc' \in {"panicStopAll", "panicWait"} /\ pc' # pc) =>
             /\ runCtx = "nil"
             /\ UNCHANGED <<containerVars, parentDone, idx, startRet, initLog,
                            launchLog, goVars, waitVars>>]_vars
    /\ [][runCtx = "nil" => ~StopAll /\ ~(\E timed \in BOOLEAN : WaitBegin(timed))]_vars
    /\ [](pc \in {"panicStopAll", "panicWait"} =>
             runCtx = "nil" /\ startRet = <<>> /\ runContexts = [n \in {} |-> newRunContext])

\* A wait on a container with two registered services, never started.
C13_Witness ==
    /\ pc = "panicWait"
    /\ Len(services) = 2

----------------------------------------------------------------------------
\* C14: once the run context is cancelled, by StopAll, a failed Init, a
\* failed Run or the parent, it is cancelled in every later state; StopAll
\* on a cancelled run context changes nothing of the container, the start,
\* the goroutines or a wait in progress; and StopAll can always be taken by
\* a caller once StartAll has begun.
C14_CancelIdempotentIrreversible ==
    /\ [][Cancelled => Cancelled']_vars
    /\ [][(Cancelled /\ (StopAll \/ \E n \in Names : FailStopAll(n))) =>
             UNCHANGED <<containerVars, parentDone, startVars, runErr, sender,
                         waitCtx, waitTimed, wpc, wg, joiner>>]_vars
    /\ []((runCtx # "nil" /\ pc \in {"idle", "wait"}) => ENABLED StopAll)

\* The run context was cancelled by the parent and by the StopAll of a
\* failed Run, the second of which found it cancelled already.
C14_Witness ==
    /\ Cancelled
    /\ parentDone
    /\ \E n \in Names : runErr[n] \in RunErrors /\ gpc[n] = "exit"

----------------------------------------------------------------------------
\* C15: once the parent context is cancelled the run context derived from
\* it is cancelled too; every launched cooperating service then eventually
\* reaches its terminal state, a wait on cooperating services returns, and
\* ServiceErrors() is empty when every launched Run has returned nil and
\* terminated.
C15_ParentCancelStopsAll ==
    /\ []((parentDone /\ runCtx # "nil") => Cancelled)
    /\ \A t \in Cooperating :
          (parentDone /\ gpc[t] # "none") ~> (Terminal(t) \/ Panicked)
    /\ (parentDone /\ pc = "wait" /\ Launched \subseteq Cooperating) ~> (pc = "idle")
    /\ []((\A n \in Launched : Terminal(n) /\ runErr[n] = Nil) => DOMAIN ServiceErrors = {})

\* The parent was cancelled after a successful start of two services, both
\* returned nil and terminated, and a wait returned as completed.
C15_Witness ==
    /\ parentDone
    /\ startRet = <<"nil">>
    /\ Len(launchLog) = 2
    /\ \A n \in Launched : Terminal(n) /\ runErr[n] = Nil
    /\ waitRet = "canceled"
    /\ DOMAIN ServiceErrors = {}

----------------------------------------------------------------------------
\* C16: no step of the goroutine of a service whose Run returned nil
\* cancels the run context or touches another service's run context or
\* goroutine, and that service's recorded error is nil, so it is not in
\* ServiceErrors().
C16_NilReturnDoesNotCancel ==
    /\ [][\A n \in Names :
             (gpc'[n] # gpc[n] /\ runErr'[n] = Nil) =>
                 /\ runCtx' = runCtx
                 /\ \A m \in DOMAIN runContexts \ {n} :
                        runContexts'[m] = runContexts[m] /\ gpc'[m] = gpc[m]]_vars
    /\ [](\A n \in Launched : runErr[n] = Nil => n \notin DOMAIN ServiceErrors)

\* One service returned nil of its own accord and its goroutine ended; the
\* other is still running, the run context live.
C16_Witness ==
    /\ runCtx = "active"
    /\ \E n \in Names : gpc[n] = "exit" /\ runErr[n] = Nil /\ Terminal(n)
    /\ \E m \in Names : gpc[m] = "inRun" /\ runContexts[m].running
    /\ DOMAIN ServiceErrors = {}

----------------------------------------------------------------------------
\* C17: once StartAll has begun (the run context is set) the registry does
\* not change any more: no step adds a descriptor.
C17_RegistryFixedAfterStart ==
    [][runCtx # "nil" => services' = services]_vars

----------------------------------------------------------------------------
\* C18: a service whose Run has not returned is never made to stop: its run
\* context stays running, so RunningCount() is greater than zero, after a
\* cancellation as before it, and an untimed wait does not return while the
\* Run of a launched service has not returned.
C18_NeverForciblyTerminated ==
    /\ [](\A n \in Launched : ~RunReturned(n) => runContexts[n].running /\ RunningCount > 0)
    /\ [][\A n \in Names :
             (gpc[n] = "inRun" /\ gpc'[n] # "inRun") =>
                 \E res \in {Nil} \cup RunErrors : RunReturn(n, res)]_vars
    /\ [][(pc = "wait" /\ ~waitTimed /\ \E n \in Launched : ~RunReturned(n)) =>
             pc' = "wait"]_vars

\* The run context is cancelled, the cooperating service has terminated,
\* the non-cooperating one is still in Run and an untimed wait is blocked
\* on it.
C18_Witness ==
    /\ Cancelled
    /\ pc = "wait"
    /\ ~waitTimed
    /\ \E n \in Names \ Cooperating : gpc[n] = "inRun" /\ wpc[n] = "recv"
    /\ \E m \in Cooperating : Terminal(m) /\ gpc[m] = "exit"
    /\ RunningCount = 1

----------------------------------------------------------------------------
\* C19: after StartAll has returned the error of a failed Init no run
\* context is running, RunningCount() is 0, ServiceErrors() is empty, and a
\* wait, timed or not, returns.
C19_WaitAfterInitFailure ==
    /\ []((startRet # <<>> /\ startRet[1] = "err") =>
             /\ RunningCount = 0
             /\ DOMAIN ServiceErrors = {}
             /\ Launched = {})
    /\ (pc = "wait" /\ startRet # <<>> /\ startRet[1] = "err") ~> (pc = "idle")
    /\ (pc = "wait" /\ ~waitTimed /\ startRet # <<>> /\ startRet[1] = "err")
          ~> (waitRet = "canceled")

\* The Init of the second service failed after the first one's succeeded,
\* and an untimed wait returned.
C19_Witness ==
    /\ startRet # <<>>
    /\ startRet[1] = "err"
    /\ Cardinality(DOMAIN runContexts) = 2
    /\ Len(initLog) = 2
    /\ waitRet = "canceled"

----------------------------------------------------------------------------
\* C20: in every state in which StartAll has returned the error of a failed
\* Init the run context is cancelled; it is so on the very step on which
\* StartAll returns.
C20_InitErrorImpliesCancelled ==
    /\ [][(startRet = <<>> /\ startRet' # <<>> /\ startRet'[1] = "err") =>
             runCtx' = "cancelled"]_vars
    /\ []((startRet # <<>> /\ startRet[1] = "err") => Cancelled)

\* StartAll has just returned the Init error of the second service: the run
\* context is cancelled although the parent is live, the goroutine of the
\* failure branch has not run yet.
C20_Witness ==
    /\ startRet # <<>>
    /\ startRet[1] = "err"
    /\ Cancelled
    /\ ~parentDone
    /\ Len(initLog) = 2
    /\ \E n \in Names : sender[n] = "pending"

----------------------------------------------------------------------------
\* C29: every call of Default() returns the same Container, also when the
\* first calls are made by several goroutines at once, so that all services
\* registered through Default() are in one registry.
C29_DefaultIsSingleton ==
    /\ \A g, h \in Callers : (dret[g] # 0 /\ dret[h] # 0) => dret[g] = dret[h]
    /\ Cardinality({i \in 1..Len(heap) : heap[i] # <<>>}) <= 1
    /\ Len(heap) <= 1

----------------------------------------------------------------------------
\* C21: in every state in which the done channel of a launched service is
\* closed, its run context is not running and holds the error its Run
\* returned; and on the step that closes it both were so already.
C21_RecordedBeforeSignaled ==
    /\ [](\A n \in Launched :
             runContexts[n].closed =>
                 ~runContexts[n].running /\ runContexts[n].err = runErr[n])
    /\ [][\A n \in Launched :
             (~runContexts[n].closed /\ runContexts'[n].closed) =>
                 ~runContexts[n].running /\ runContexts[n].err = runErr[n]]_vars

\* One service has signaled completion with its error recorded, the other
\* with nil.
C21_Witness ==
    /\ \E n \in Launched : runContexts[n].closed /\ runContexts[n].err \in RunErrors
    /\ \E n \in Launched : runContexts[n].closed /\ runContexts[n].err = Nil

----------------------------------------------------------------------------
\* C22: the done channel of a run context is signaled at most once, by the
\* close of the service's Run goroutine or by the send of its failed Init,
\* never by both; a signal is never taken back; and it is eventually given
\* once Run has returned or Init has failed, unless the process panics.
C22_Signals(n) ==
    (IF runContexts[n].closed THEN 1 ELSE 0) + (IF sender[n] = "sent" THEN 1 ELSE 0)

C22_SignaledExactlyOnce ==
    /\ [](\A n \in DOMAIN runContexts :
             /\ C22_Signals(n) <= 1
             /\ ~(InitFailed(n) /\ gpc[n] # "none")
             /\ runContexts[n].closed => gpc[n] \in {"closed", "exit"}
             /\ (C22_Signals(n) = 0 /\ gpc[n] = "none" /\ sender[n] = "none")
                    => runContexts[n].buf = 0)
    /\ [][\A n \in DOMAIN runContexts :
             /\ runContexts[n].closed => runContexts'[n].closed
             /\ sender[n] = "sent" => sender'[n] = "sent"
             /\ gpc[n] \in {"closed", "exit"} => gpc'[n] \in {"closed", "exit"}]_vars
    /\ \A n \in Names : RunReturned(n) ~> (Terminal(n) \/ Panicked)
    /\ \A n \in Names : InitFailed(n) ~> (sender[n] = "sent" \/ Panicked)

\* The Init of the second service failed and its completion was signaled by
\* the send; the first service, never launched, has no signal.
C22_Witness ==
    /\ Len(services) = 2
    /\ sender[services[2].name] = "sent"
    /\ runContexts[services[2].name].buf = 1
    /\ ~runContexts[services[2].name].closed
    /\ C22_Signals(services[1].name) = 0

----------------------------------------------------------------------------
\* C23: no name is in the Init log or in the launch log twice, a Run
\* goroutine is started once and never again, and a service has a Run
\* goroutine only if its Init, if it has one, was invoked and did not fail
\* and the Init loop is over.
C23_InitAndRunAtMostOnce ==
    /\ [](\A i, j \in 1..Len(initLog) : initLog[i] = initLog[j] => i = j)
    /\ [](\A i, j \in 1..Len(launchLog) : launchLog[i] = launchLog[j] => i = j)
    /\ [][\A n \in Names : gpc[n] # "none" => gpc'[n] \notin {"none", "spawned"} \/ gpc'[n] = gpc[n]]_vars
    /\ [](\A n \in Launched :
             /\ ~InitFailed(n)
             /\ n \in Initers => (\E i \in 1..Len(initLog) : initLog[i] = n)
             /\ pc \notin {"init", "inInit"}
             /\ \A m \in Names : ~InitFailed(m))

\* Both services are Initers; each was initialized once and both Runs have
\* been invoked.
C23_Witness ==
    /\ Len(initLog) = 2
    /\ Len(launchLog) = 2
    /\ \A n \in Launched : RunInvoked(n)

----------------------------------------------------------------------------
\* C24: the error of a run context is written at most once and does not
\* change afterwards, and the maps ServiceErrors() returns are monotone:
\* a name that is in one of them with an error is in every later one with
\* the same error, whatever the other services are doing.
C24_ServiceErrorsMonotone ==
    /\ [][\A n \in DOMAIN runContexts :
             runContexts'[n].err # runContexts[n].err => runContexts[n].err = Nil]_vars
    /\ [][\A e \in ServiceErrorsSnapshots : \A e2 \in ServiceErrorsSnapshots' :
             \A n \in DOMAIN e : n \in DOMAIN e2 /\ e2[n] = e[n]]_vars

----------------------------------------------------------------------------
\* C25: RunningCount() is the number of launched services whose goroutine
\* has not yet cleared the running flag; it is 0 before StartAll and never
\* more than the number of registered services; the flag of a run context
\* goes from false to true only at its launch and from true to false only
\* at the goroutine's runner.running = false, each of which happens once.
C25_RunningCountExact ==
    /\ [](RunningCount = Cardinality({n \in Launched :
                            gpc[n] \in {"spawned", "inRun", "returned", "errSet"}}))
    /\ [](runCtx = "nil" => RunningCount = 0)
    /\ [](RunningCount <= Len(services))
    /\ [][\A n \in DOMAIN runContexts :
             /\ (~runContexts[n].running /\ runContexts'[n].running) =>
                    gpc[n] = "none" /\ gpc'[n] = "spawned"
             /\ (runContexts[n].running /\ ~runContexts'[n].running) =>
                    gpc[n] = "errSet" /\ gpc'[n] = "notRunning"
             /\ gpc[n] # "none" => gpc'[n] # "none"
             /\ gpc[n] \in {"notRunning", "closed", "exit"} =>
                    gpc'[n] \in {"notRunning", "closed", "exit"}]_vars

\* Two services launched; one has cleared its flag and not yet closed its
\* channel, the other is in Run.
C25_Witness ==
    /\ Len(launchLog) = 2
    /\ RunningCount = 1
    /\ \E n \in Launched : gpc[n] = "notRunning"
    /\ \E n \in Launched : gpc[n] = "inRun"

----------------------------------------------------------------------------
\* C26: ServiceNames() is empty before StartAll, is the set of registered
\* names once StartAll has returned nil, and is the set of the names of
\* services 1..k once the Init of the k-th service has failed.
C26_ServiceNamesAreInitReached ==
    /\ runCtx = "nil" => ServiceNames = {}
    /\ startRet = <<"nil">> => ServiceNames = RegisteredNames
    /\ \A n \in Names :
          InitFailed(n) => ServiceNames = {services[i].name : i \in 1..IndexOf(n)}

----------------------------------------------------------------------------
\* C27: once the Run of a service has returned an error the run context is
\* eventually cancelled, unless the process panics first, also when no
\* other service is running; and on the step on which the goroutine of that
\* Run calls StopAll the error is in the run context and its completion is
\* signaled.
C27_RunFailureCancels ==
    /\ \A n \in Names : (runErr[n] \in RunErrors) ~> (Cancelled \/ Panicked)
    /\ [][\A n \in Names :
             (gpc[n] = "closed" /\ gpc'[n] = "exit") =>
                 /\ runErr[n] \in RunErrors
                 /\ runContexts[n].err = runErr[n]
                 /\ runContexts[n].closed
                 /\ runCtx' = "cancelled"]_vars
    /\ [](\A n \in Names : (runErr[n] \in RunErrors /\ gpc[n] = "exit") => Cancelled)

\* The only service failed and its goroutine cancelled the run context, the
\* parent still live.
C27_Witness ==
    /\ Len(services) = 1
    /\ startRet = <<"nil">>
    /\ runErr[services[1].name] \in RunErrors
    /\ gpc[services[1].name] = "exit"
    /\ Cancelled
    /\ ~parentDone

----------------------------------------------------------------------------
\* C28: the parent context is cancelled by its owner only: StopAll, by a
\* caller, by the goroutine of a failed Run or by StartAll after a failed
\* Init, leaves it as it is; a StopAll step changes no run context and no
\* Run goroutine; and a running flag is cleared or an error changed only
\* after the Run of that service has returned.
C28_StopAllFrame ==
    /\ [][parentDone' # parentDone => ParentCancel]_vars
    /\ [][(StopAll \/ (\E n \in Names : FailStopAll(n))
              \/ (\E cause \in InitErrors : InitReturnsError(cause))) =>
             parentDone' = parentDone]_vars
    /\ [][StopAll => runContexts' = runContexts /\ gpc' = gpc /\ runErr' = runErr]_vars
    /\ [][\A n \in DOMAIN runContexts :
             ((runContexts[n].running /\ ~runContexts'[n].running)
                 \/ runContexts'[n].err # runContexts[n].err) => RunReturned(n)]_vars

\* StopAll was called after a successful start: the run context is
\* cancelled, the parent is not, and both services are running as before.
C28_Witness ==
    /\ Cancelled
    /\ ~parentDone
    /\ startRet = <<"nil">>
    /\ Len(launchLog) = 2
    /\ \A n \in Launched : gpc[n] = "inRun" /\ runContexts[n].running

====
